---------------------------- MODULE Spec2Model ----------------------------
(***************************************************************************)
(* The Extraction Gateway: the Express route handlers of the yt-dlp based  *)
(* backend with the YouTube Data API (OAuth) fallback.                     *)
(*                                                                         *)
(* The handlers are those of the variant with the OAuth fallback.  The     *)
(* routes it shares with server.js (playlist-videos, download-info,        *)
(* download, and playlist-info up to the fallback) differ there only in    *)
(* that server.js does not take the raw document apart when it is an array.*)
(*                                                                         *)
(* A request is a slot of `req`.  A handler runs from the arrival of the   *)
(* request to its first `await`, and from the settling of the awaited      *)
(* promise to the next `await` or to its end, so each such stretch is one  *)
(* action.  The extractor (yt-dlp-wrap), the Data API client (googleapis)  *)
(* and the audio stream are the environment: what they answer is chosen    *)
(* by \E from the sets below.                                              *)
(*                                                                         *)
(* Spec is the whole server with NumReq requests.  TitleSpec and ArraySpec *)
(* run the download route over every title and the playlist routes over    *)
(* every array answer; ConcSpec runs NumConc requests together; DraftSpec  *)
(* is the playlist-videos route of the draft that reads the extractor's    *)
(* output line by line.                                                    *)
(*                                                                         *)
(* JavaScript values.  An object is a record that holds exactly the        *)
(* properties that are present; Get reads a property as an option, <<>>    *)
(* for undefined/null and <<v>> for a value.  An array is the record       *)
(* [array |-> <<...>>], JSON null is [null |-> TRUE].  A string whose      *)
(* characters the code inspects (the Authorization header, a video title)  *)
(* is a sequence of one-character strings; other strings are opaque.       *)
(***************************************************************************)
EXTENDS Integers, Sequences, FiniteSets, TLC

\* Number of requests the server is handed (they may all be in flight at once).
NumReq == 1
\* Largest number of audio chunks the extractor's stream delivers to one response.
MaxChunks == 2
\* Largest number of 'error' events one stream emits.
MaxErrorEvents == 2
\* Lines of extractor output the line-by-line reading is given.
MaxLines == 3
\* Longest video title the download is given.
MaxTitleLen == 2
\* Longest array the extractor answers a playlist request with.
MaxItems == 2
\* Number of requests that are in flight together.
NumConc == 2

ReqIds == 1..NumReq
ConcIds == 1..NumConc

None == <<>>
Some(v) == <<v>>

\* o.f for an object o: undefined when the property is absent.
Get(o, f) == IF f \in DOMAIN o THEN Some(o[f]) ELSE None

IsArray(v) == "array" \in DOMAIN v
IsNull(v) == "null" \in DOMAIN v
Null == [null |-> TRUE]
Arr(s) == [array |-> s]

\* a || b for a string-valued a (undefined, null and '' are falsy).
OrStr(a, b) == IF a = None \/ a = Some("") THEN b ELSE a
\* a || b for a number-valued a (undefined, null and 0 are falsy).
OrNum(a, b) == IF a = None \/ a = Some(0) THEN b ELSE a

\* The outcome of a block of handler code: it threw, or it produced a value.
Thrown(m) == [threw |-> TRUE, message |-> m]
Returned(v) == [threw |-> FALSE, value |-> v]

-----------------------------------------------------------------------------
(* Authorization header *)

BearerPrefix == <<"B", "e", "a", "r", "e", "r", " ">>

\* s.startsWith(p)
StartsWith(s, p) == Len(s) >= Len(p) /\ SubSeq(s, 1, Len(p)) = p
\* s.substring(n)
Substring(s, n) == SubSeq(s, n + 1, Len(s))

\* authHeader && authHeader.startsWith('Bearer ')
HasBearer(auth) == auth # None /\ StartsWith(auth[1], BearerPrefix)

\* authHeader.substring(7)
AccessToken(auth) == Substring(auth[1], 7)


-----------------------------------------------------------------------------
(* Extractor output and response shaping *)

\* What getVideoInfo resolves with is either a string or an already parsed
\* value.  A string is given by whether it is valid JSON and by the value it
\* then denotes; JSON.parse throws a SyntaxError on the others.
JSONparse(s) == IF s.valid THEN Returned(s.doc) ELSE Thrown("SyntaxError")

\* typeof metadata === 'string' ? JSON.parse(metadata) : metadata
ParseMetadata(metadata) ==
    IF metadata.kind = "string" THEN JSONparse(metadata) ELSE Returned(metadata.doc)

WatchUrl(videoId) == [watch |-> videoId]
PlaylistUrl(playlistId) == [list |-> playlistId]

AnyNull(items) == \E i \in 1..Len(items) : IsNull(items[i])
IsPlaylistItem(item) == Get(item, "_type") = Some("playlist")
IsVideoItem(item) == Get(item, "_type") \in {Some("url"), Some("video")}

\* rawData.find(item => item._type === 'playlist') || rawData[rawData.length - 1]
FindPlaylistData(items) ==
    LET idx == {i \in 1..Len(items) : IsPlaylistItem(items[i])}
    IN  IF idx # {} THEN Some(items[CHOOSE i \in idx : \A j \in idx : i <= j])
        ELSE IF Len(items) > 0 THEN Some(items[Len(items)])
        ELSE None

\* rawData.filter(item => item._type === 'url' || item._type === 'video')
FilterEntries(items) == SelectSeq(items, IsVideoItem)

\* Variant of SplitRawData without the array case, as in the variant of the
\* server without the OAuth fallback: playlistData = rawData and
\* entries = playlistData.entries || [], whatever rawData is.
SplitRawDataNoArrayCase(rawData) ==
    IF IsNull(rawData) THEN Thrown("TypeError")
    ELSE Returned([playlistData |-> Some(rawData),
                   entries |-> IF Get(rawData, "entries") = None THEN <<>>
                               ELSE rawData.entries.array])

\* The split of the raw document into the playlist-level document and the
\* entries; a property read on null or undefined is a TypeError.
SplitRawData(rawData) ==
    IF IsNull(rawData) THEN Thrown("TypeError")
    ELSE IF IsArray(rawData)
    THEN IF AnyNull(rawData.array) THEN Thrown("TypeError")
         ELSE Returned([playlistData |-> FindPlaylistData(rawData.array),
                        entries |-> FilterEntries(rawData.array)])
    ELSE Returned([playlistData |-> Some(rawData),
                   entries |-> IF Get(rawData, "entries") = None THEN <<>>
                               ELSE rawData.entries.array])

\* thumbnails && thumbnails.length > 0 ? thumbnails[thumbnails.length - 1].url : null || ''
LastThumbnailUrl(playlistData) ==
    LET t == Get(playlistData, "thumbnails")
    IN  IF t # None /\ Len(t[1].array) > 0
        THEN Get(t[1].array[Len(t[1].array)], "url")
        ELSE Some("")

\* The body playlist-info answers with from the extractor's document.
PlaylistInfoBody(playlistId, rawData) ==
    LET split == SplitRawData(rawData)
    IN  IF split.threw THEN split
        ELSE IF split.value.playlistData = None \/ IsNull(split.value.playlistData[1])
        THEN Thrown("TypeError")
        ELSE LET playlistData == split.value.playlistData[1]
                 entries == split.value.entries
             IN  Returned([id |-> Some(playlistId),
                           title |-> OrStr(Get(playlistData, "title"), Some("Unknown Playlist")),
                           description |-> OrStr(Get(playlistData, "description"), Some("")),
                           thumbnailUrl |-> LastThumbnailUrl(playlistData),
                           itemCount |-> OrNum(OrNum(Get(playlistData, "playlist_count"),
                                                     Some(Len(entries))), Some(0)),
                           source |-> Some("yt-dlp")])

\* video.thumbnail || (video.thumbnails && video.thumbnails.length > 0
\*                       ? video.thumbnails[0].url : '') || ''
VideoThumbnailUrl(video) ==
    LET t == Get(video, "thumbnails")
    IN  OrStr(OrStr(Get(video, "thumbnail"),
                    IF t # None /\ Len(t[1].array) > 0
                    THEN Get(t[1].array[1], "url") ELSE Some("")),
              Some(""))

\* One element of entries.map(video => ...), for a video that is not null.
VideoSummary(video) ==
    [id |-> Get(video, "id"),
     title |-> OrStr(Get(video, "title"), Some("Unknown")),
     author |-> OrStr(OrStr(OrStr(Get(video, "uploader"), Get(video, "channel")),
                            Get(video, "uploader_id")), Some("Unknown")),
     duration |-> OrNum(Get(video, "duration"), Some(0)),
     thumbnailUrl |-> VideoThumbnailUrl(video)]

IsNotNull(v) == ~IsNull(v)

\* entries.map(video => video ? {...} : null).filter(v => v !== null)
MapVideos(entries) ==
    LET kept == SelectSeq(entries, IsNotNull)
    IN  [i \in 1..Len(kept) |-> VideoSummary(kept[i])]

\* The body playlist-videos answers with from the extractor's document.
PlaylistVideosBody(playlistId, rawData) ==
    LET split == SplitRawData(rawData)
    IN  IF split.threw THEN split
        ELSE IF split.value.playlistData = None \/ IsNull(split.value.playlistData[1])
        THEN Thrown("TypeError")
        ELSE LET playlistData == split.value.playlistData[1]
                 videos == MapVideos(split.value.entries)
             IN  Returned([playlistId |-> Some(playlistId),
                           title |-> OrStr(Get(playlistData, "title"), Some("")),
                           itemCount |-> Some(Len(videos)),
                           videos |-> Some(videos)])

\* The body download-info answers with from the extractor's document.
DownloadInfoBody(videoId, info) ==
    IF IsNull(info) THEN Thrown("TypeError")
    ELSE Returned([videoId |-> Some(videoId),
                   title |-> Get(info, "title"),
                   author |-> OrStr(OrStr(Get(info, "uploader"), Get(info, "channel")),
                                    Some("Unknown")),
                   lengthSeconds |-> OrNum(Get(info, "duration"), Some(0)),
                   downloadUrl |-> Some(WatchUrl(videoId)),
                   quality |-> Some("best"),
                   format |-> Some("audio/mp4")])

-----------------------------------------------------------------------------
(* Content-Disposition filename *)

UpperCase == <<"A", "B", "C", "D", "E", "F", "G", "H", "I", "J", "K", "L", "M",
               "N", "O", "P", "Q", "R", "S", "T", "U", "V", "W", "X", "Y", "Z">>
LowerCase == <<"a", "b", "c", "d", "e", "f", "g", "h", "i", "j", "k", "l", "m",
               "n", "o", "p", "q", "r", "s", "t", "u", "v", "w", "x", "y", "z">>
Digits == <<"0", "1", "2", "3", "4", "5", "6", "7", "8", "9">>

Range(s) == {s[i] : i \in 1..Len(s)}

\* /[^a-z0-9]/gi matches c
NotAlnum(c) == c \notin Range(UpperCase) \cup Range(LowerCase) \cup Range(Digits)

\* c.toLowerCase() for an ASCII character
ToLowerChar(c) ==
    IF c \in Range(UpperCase)
    THEN LowerCase[CHOOSE i \in 1..Len(UpperCase) : UpperCase[i] = c]
    ELSE c

\* Variant of SanitizeTitle: title.replace(/[^a-z0-9]/gi, '_') without toLowerCase().
SanitizeTitleNoLowerCase(title) ==
    [i \in 1..Len(title) |-> IF NotAlnum(title[i]) THEN "_" ELSE title[i]]

\* title.replace(/[^a-z0-9]/gi, '_').toLowerCase()
SanitizeTitle(title) ==
    [i \in 1..Len(title) |-> IF NotAlnum(title[i]) THEN "_" ELSE ToLowerChar(title[i])]

\* Variant of DownloadTitle: (info.title || 'audio'), so that a document
\* without a title no longer throws.
DownloadTitleDefault(info) ==
    IF IsNull(info) THEN Thrown("TypeError")
    ELSE IF Get(info, "title") \in {None, Some(<<>>)}
    THEN Returned(<<"a", "u", "d", "i", "o">>)
    ELSE Returned(SanitizeTitle(info.title))

\* const title = info.title.replace(...).toLowerCase(): a TypeError when info is
\* null or has no title.
DownloadTitle(info) ==
    IF IsNull(info) \/ Get(info, "title") = None THEN Thrown("TypeError")
    ELSE Returned(SanitizeTitle(info.title))

\* `attachment; filename="${title}.m4a"`
ContentDisposition(title) == [filename |-> title, ext |-> ".m4a"]

-----------------------------------------------------------------------------
(* YouTube Data API replies *)

\* o?.f
GetOpt(o, f) == IF o = None THEN None ELSE Get(o[1], f)

\* playlist.snippet.thumbnails?.medium?.url || playlist.snippet.thumbnails?.default?.url || ''
ApiThumbnailUrl(snippet) ==
    LET thumbnails == Get(snippet, "thumbnails")
    IN  OrStr(OrStr(GetOpt(GetOpt(thumbnails, "medium"), "url"),
                    GetOpt(GetOpt(thumbnails, "default"), "url")),
              Some(""))

\* playlist.snippet.x or playlist.contentDetails.x is read on undefined
MissingParts(playlist) ==
    Get(playlist, "snippet") = None \/ Get(playlist, "contentDetails") = None

\* One element of response.data.items.map(playlist => ...) of user-playlists.
UserPlaylistSummary(playlist) ==
    [id |-> Get(playlist, "id"),
     title |-> Get(playlist.snippet, "title"),
     description |-> Get(playlist.snippet, "description"),
     thumbnailUrl |-> ApiThumbnailUrl(playlist.snippet),
     itemCount |-> Get(playlist.contentDetails, "itemCount"),
     privacy |-> OrStr(GetOpt(Get(playlist, "status"), "privacyStatus"), Some("public"))]

\* The body user-playlists answers with from the API's reply.
UserPlaylistsBody(data) ==
    IF Get(data, "items") = None THEN Thrown("TypeError")
    ELSE LET items == data.items.array
         IN  IF \E i \in 1..Len(items) : MissingParts(items[i]) THEN Thrown("TypeError")
             ELSE Returned([playlists |->
                              Some([i \in 1..Len(items) |-> UserPlaylistSummary(items[i])])])

\* Variant of ApiPlaylistInfoBody: the guard reads items.length > 1.
ApiPlaylistInfoBodyOffByOne(playlistId, data) ==
    IF Get(data, "items") # None /\ Len(data.items.array) > 1
    THEN LET playlist == data.items.array[1]
         IN  IF MissingParts(playlist) THEN Thrown("TypeError")
             ELSE Returned(Some(
                    [id |-> Some(playlistId),
                     title |-> Get(playlist.snippet, "title"),
                     description |-> OrStr(Get(playlist.snippet, "description"), Some("")),
                     thumbnailUrl |-> ApiThumbnailUrl(playlist.snippet),
                     itemCount |-> Get(playlist.contentDetails, "itemCount"),
                     source |-> Some("youtube-api")]))
    ELSE Returned(None)

\* The inner try of the playlist-info fallback: the body built from
\* response.data.items[0], None when `items && items.length > 0` is false.
ApiPlaylistInfoBody(playlistId, data) ==
    IF Get(data, "items") # None /\ Len(data.items.array) > 0
    THEN LET playlist == data.items.array[1]
         IN  IF MissingParts(playlist) THEN Thrown("TypeError")
             ELSE Returned(Some(
                    [id |-> Some(playlistId),
                     title |-> Get(playlist.snippet, "title"),
                     description |-> OrStr(Get(playlist.snippet, "description"), Some("")),
                     thumbnailUrl |-> ApiThumbnailUrl(playlist.snippet),
                     itemCount |-> Get(playlist.contentDetails, "itemCount"),
                     source |-> Some("youtube-api")]))
    ELSE Returned(None)

-----------------------------------------------------------------------------
(* What the environment hands to the handlers *)

Ops == {"middleware-error", "health", "user-playlists", "playlist-info", "playlist-videos",
        "download-info", "download"}

\* req.query.playlistId / req.query.videoId: absent, empty, or an id.
QueryValues == {None, Some(""), Some("id1")}

\* req.headers.authorization
AuthHeaders ==
    {None,
     Some(<<"B", "a", "s", "i", "c", " ", "t">>),
     Some(<<"B", "e", "a", "r", "e", "r">>),
     Some(BearerPrefix),
     Some(BearerPrefix \o <<"t">>)}

Entry1 == [id |-> "v1", title |-> "T1", uploader |-> "U", duration |-> 10,
           thumbnail |-> "t.jpg"]
EntryBare == [title |-> ""]
ItemUrl == [_type |-> "url", id |-> "v1", title |-> "T1", channel |-> "C"]
ItemVideo == [_type |-> "video", id |-> "v2", uploader_id |-> "@u",
              thumbnails |-> Arr(<<[url |-> "x.jpg"]>>)]
ItemPlaylist == [_type |-> "playlist", title |-> "Mix"]

PlaylistFull ==
    [title |-> "Mix", description |-> "about", playlist_count |-> 2,
     thumbnails |-> Arr(<<[url |-> "a.jpg"], [url |-> "b.jpg"]>>),
     entries |-> Arr(<<Entry1, ItemVideo>>)]
PlaylistBare == [id |-> "id1"]
PlaylistOdd ==
    [title |-> "Mix", thumbnails |-> Arr(<<[id |-> "0"]>>),
     entries |-> Arr(<<Null, EntryBare>>)]

PlaylistDocs ==
    {PlaylistFull, PlaylistBare, PlaylistOdd,
     Arr(<<ItemUrl, ItemPlaylist, ItemVideo>>), Arr(<<ItemUrl, ItemVideo>>),
     Arr(<<>>), Null}

VideoFull == [title |-> <<"A", "b", " ", "1">>, uploader |-> "U", channel |-> "C",
              duration |-> 10]
VideoNoTitle == [channel |-> "C"]
VideoEmptyTitle == [title |-> <<>>, duration |-> 0]

VideoDocs == {VideoFull, VideoNoTitle, VideoEmptyTitle, Null}

\* Characters of a title: a capital, a small letter, a digit, a space, an
\* underscore, a hyphen and a letter outside ASCII.
TitleChars == {"A", "z", "7", " ", "_", "-", "U+00E9"}

Titles == UNION {[1..n -> TitleChars] : n \in 0..MaxTitleLen}

\* The metadata of a video for every title.
TitledResults == {[kind |-> "value", doc |-> [title |-> t, duration |-> 10]] : t \in Titles}

\* Elements of an array answer: two videos, two playlist-level documents and
\* an element without a type tag.
ItemPlaylist2 == [_type |-> "playlist", title |-> "Other", playlist_count |-> 7]
ItemOther == [id |-> "v3", title |-> "T3"]
ArrayItems == {ItemUrl, ItemVideo, ItemPlaylist, ItemPlaylist2, ItemOther}

\* Every array of at most MaxItems of these elements, as a parsed value.
ArrayResults ==
    {[kind |-> "value", doc |-> Arr(items)] :
        items \in UNION {[1..n -> ArrayItems] : n \in 0..MaxItems}}

\* What ytDlp.getVideoInfo settles with, for a set of documents.
YtdlpResults(docs) ==
    {[kind |-> "reject", message |-> "yt-dlp exited"],
     [kind |-> "string", valid |-> FALSE, doc |-> Null]}
    \cup {[kind |-> "string", valid |-> TRUE, doc |-> d] : d \in {PlaylistFull, VideoFull} \cap docs}
    \cup {[kind |-> "value", doc |-> d] : d \in docs}

\* One line of the extractor's standard output: blank, or text that is or is
\* not valid JSON, with the value it then denotes.
BlankLine == [blank |-> TRUE, valid |-> FALSE, doc |-> Null]
BadLine == [blank |-> FALSE, valid |-> FALSE, doc |-> Null]
JsonLine(d) == [blank |-> FALSE, valid |-> TRUE, doc |-> d]

IsNotBlank(line) == ~line.blank

\* The string the extractor prints with --dump-json: one JSON value per line.
\* JSON.parse of the whole string succeeds exactly when one line is not blank
\* and that line is valid JSON (white space around a value is allowed).
NdjsonText(lines) ==
    LET text == SelectSeq(lines, IsNotBlank)
        whole == Len(text) = 1 /\ text[1].valid
    IN  [kind |-> "string", valid |-> whole,
         doc |-> IF whole THEN text[1].doc ELSE Null, lines |-> lines]

\* Line-delimited outputs playlist-videos is served: two videos and the
\* trailing newline, a line of noise between two videos, a single video.
NdjsonSamples ==
    {<<JsonLine(ItemUrl), JsonLine(ItemVideo), BlankLine>>,
     <<JsonLine(ItemUrl), BadLine, JsonLine(ItemVideo)>>,
     <<JsonLine(ItemUrl), BlankLine>>}

\* Every output of at most MaxLines lines over these kinds of line.
LineKinds == {BlankLine, BadLine, JsonLine(Null), JsonLine(ItemUrl), JsonLine(ItemVideo)}

LineSeqs == UNION {[1..n -> LineKinds] : n \in 0..MaxLines}

\* What ytDlp.getVideoInfo settles with in the draft's playlist-videos.
DraftResults ==
    {[kind |-> "reject", message |-> "yt-dlp exited"],
     [kind |-> "value", doc |-> PlaylistFull]}
    \cup {NdjsonText(lines) : lines \in LineSeqs}

\* What ytDlp.getVideoInfo settles with in playlist-videos.
PlaylistVideosResults ==
    YtdlpResults(PlaylistDocs) \cup {NdjsonText(lines) : lines \in NdjsonSamples}

ApiFull == [id |-> "id1",
            snippet |-> [title |-> "Mine", description |-> "d",
                         thumbnails |-> [default |-> [url |-> "d.jpg"]]],
            contentDetails |-> [itemCount |-> 3],
            status |-> [privacyStatus |-> "private"]]
ApiBare == [id |-> "id1", snippet |-> [title |-> "Mine"],
            contentDetails |-> [itemCount |-> 0]]
ApiNoSnippet == [id |-> "id1"]

\* What youtube.playlists.list settles with.
ApiResults ==
    {[kind |-> "reject", code |-> Some(401), message |-> "Invalid Credentials"],
     [kind |-> "reject", code |-> Some(403), message |-> "quotaExceeded"],
     [kind |-> "reject", code |-> None, message |-> "ECONNRESET"],
     [kind |-> "resolve", data |-> [etag |-> "e"]],
     [kind |-> "resolve", data |-> [items |-> Arr(<<>>)]],
     [kind |-> "resolve", data |-> [items |-> Arr(<<ApiFull, ApiBare>>)]],
     [kind |-> "resolve", data |-> [items |-> Arr(<<ApiBare>>)]],
     [kind |-> "resolve", data |-> [items |-> Arr(<<ApiNoSnippet>>)]]}

\* What the startup probe leaves in ytDlpPath.
ExtractorPaths == {Some("/usr/bin/yt-dlp"), Some("yt-dlp"), None}

-----------------------------------------------------------------------------
(* State *)

VARIABLES
    server,     \* "starting" until the module body has run, then "listening"
    ytDlpPath,  \* the module-level path the startup probe resolves
    req         \* per request: the handler's position and the response

vars == <<server, ytDlpPath, req>>

\* A request slot before the request arrives.  status is res.statusCode;
\* heads counts the response heads written to the socket; metadata and
\* apiResult keep what the extractor and the API settled with.
FreeRequest ==
    [pc |-> "free", op |-> "none", query |-> None, auth |-> None,
     status |-> 200, headersSent |-> FALSE, heads |-> 0, json |-> FALSE,
     body |-> [none |-> TRUE], ended |-> FALSE,
     disposition |-> None, contentType |-> None,
     ytdlpCalls |-> 0, apiCalls |-> 0, ytdlpError |-> None,
     stream |-> "none", chunks |-> 0, errorEvents |-> 0,
     metadata |-> None, apiResult |-> None]

Init ==
    /\ server = "starting"
    /\ ytDlpPath = Some("yt-dlp")
    /\ req = [r \in ReqIds |-> FreeRequest]

\* res.status(status).json(body); json sets Content-Type only when no
\* Content-Type has been set on the response.
Json(rq, status, body) ==
    [rq EXCEPT !.status = status, !.body = body, !.json = TRUE,
               !.contentType = IF @ = None THEN Some("application/json") ELSE @,
               !.headersSent = TRUE, !.heads = @ + 1, !.ended = TRUE]

ErrorOnly(error) == [error |-> Some(error)]
ErrorMessage(error, message) == [error |-> Some(error), message |-> Some(message)]

\* Variant of Missing: playlistId === undefined, which lets '' through.
MissingOnlyUndefined(query) == query = None

\* !req.query.x
Missing(query) == query = None \/ query = Some("")

\* The handler has returned and nothing of it is pending.
Finish(rq) == [rq EXCEPT !.pc = "done"]

\* await ytDlp.getVideoInfo([...]): one extractor invocation, then suspend.
CallYtdlp(rq) == [rq EXCEPT !.pc = "awaitYtdlp", !.ytdlpCalls = @ + 1]

\* await youtube.playlists.list({...}): one API call, then suspend.
CallApi(rq) == [rq EXCEPT !.pc = "awaitApi", !.apiCalls = @ + 1]

\* The module body: probe for the extractor, construct the wrapper, listen.
Startup ==
    /\ server = "starting"
    /\ \E path \in ExtractorPaths : ytDlpPath' = path
    /\ server' = "listening"
    /\ UNCHANGED req

\* The arrival of request r: what it asks for and what it carries.
Arrives(r, op, query, auth) ==
    /\ server = "listening"
    /\ req[r].pc = "free"
    /\ op \in Ops /\ query \in QueryValues /\ auth \in AuthHeaders

Accept(rq, op, query, auth) == [rq EXCEPT !.op = op, !.query = query, !.auth = auth]

-----------------------------------------------------------------------------
(* GET /health *)

Health(r) ==
    /\ Arrives(r, "health", None, None)
    /\ req' = [req EXCEPT ![r] =
                 Finish(Json(Accept(@, "health", None, None), 200,
                             [status |-> Some("healthy")]))]
    /\ UNCHANGED <<server, ytDlpPath>>

\* app.use((err, req, res, next) => ...): a middleware ahead of the routes
\* (the JSON body parser) failed, so no route handler runs.
ErrorMiddleware(r) ==
    /\ Arrives(r, "middleware-error", None, None)
    /\ req' = [req EXCEPT ![r] =
                 Finish(Json(Accept(@, "middleware-error", None, None), 500,
                             ErrorOnly("Something went wrong!")))]
    /\ UNCHANGED <<server, ytDlpPath>>

-----------------------------------------------------------------------------
(* GET /api/user-playlists *)

\* Up to the await of youtube.playlists.list.
UserPlaylistsStart(rq) ==
    IF ~HasBearer(rq.auth)
    THEN Finish(Json(rq, 401, ErrorOnly("Authorization token required")))
    ELSE CallApi(rq)

\* Variant of UserPlaylistsCatch: every error that carries a code is taken
\* for a rejected token.
UserPlaylistsCatchAnyCode(rq, code, message) ==
    IF code # None
    THEN Json(rq, 401, ErrorMessage("Invalid or expired token", "Please sign in again"))
    ELSE Json(rq, 500, ErrorMessage("Failed to fetch user playlists", message))

\* The catch block: error.code === 401 ? 401 : 500
UserPlaylistsCatch(rq, code, message) ==
    IF code = Some(401)
    THEN Json(rq, 401, ErrorMessage("Invalid or expired token", "Please sign in again"))
    ELSE Json(rq, 500, ErrorMessage("Failed to fetch user playlists", message))

\* From the settling of youtube.playlists.list to the end of the handler.
UserPlaylistsSettled(rq, result) ==
    IF result.kind = "reject"
    THEN Finish(UserPlaylistsCatch(rq, result.code, result.message))
    ELSE LET shaped == UserPlaylistsBody(result.data)
         IN  IF shaped.threw
             THEN Finish(UserPlaylistsCatch(rq, None, shaped.message))
             ELSE Finish(Json(rq, 200, shaped.value))

UserPlaylists(r) ==
    \E auth \in AuthHeaders :
        /\ Arrives(r, "user-playlists", None, auth)
        /\ req' = [req EXCEPT ![r] =
                     UserPlaylistsStart(Accept(@, "user-playlists", None, auth))]
        /\ UNCHANGED <<server, ytDlpPath>>

UserPlaylistsApi(r) ==
    /\ req[r].op = "user-playlists" /\ req[r].pc = "awaitApi"
    /\ \E result \in ApiResults :
           req' = [req EXCEPT ![r] =
                     UserPlaylistsSettled([@ EXCEPT !.apiResult = Some(result)], result)]
    /\ UNCHANGED <<server, ytDlpPath>>

-----------------------------------------------------------------------------
(* GET /api/playlist-info *)

\* Up to the await of ytDlp.getVideoInfo.
PlaylistInfoStart(rq) ==
    IF Missing(rq.query)
    THEN Finish(Json(rq, 400, ErrorOnly("playlistId parameter is required")))
    ELSE CallYtdlp(rq)

\* The inner try block around the extractor call.
PlaylistInfoTry(playlistId, metadata) ==
    IF metadata.kind = "reject" THEN Thrown(metadata.message)
    ELSE LET rawData == ParseMetadata(metadata)
         IN  IF rawData.threw THEN rawData
             ELSE PlaylistInfoBody(playlistId, rawData.value)

\* The outer catch block.
PlaylistInfoCatch(rq, message) ==
    Finish(Json(rq, 500, ErrorMessage("Failed to fetch playlist info", message)))

\* Variant of FallbackWanted: if (authHeader), whatever the scheme.
FallbackWantedAnyHeader(rq) == rq.auth # None

\* if (authHeader && authHeader.startsWith('Bearer ')) in catch (ytdlpError)
FallbackWanted(rq) == HasBearer(rq.auth)

\* From the settling of getVideoInfo to the response or to the await of the API.
PlaylistInfoSettled(rq, metadata) ==
    LET tried == PlaylistInfoTry(rq.query[1], metadata)
    IN  IF ~tried.threw THEN Finish(Json(rq, 200, tried.value))
        ELSE IF FallbackWanted(rq)
        THEN CallApi([rq EXCEPT !.ytdlpError = Some(tried.message)])
        ELSE PlaylistInfoCatch([rq EXCEPT !.ytdlpError = Some(tried.message)],
                               tried.message)

\* The inner try block around the API call; apiError is caught and logged.
PlaylistInfoApiTry(playlistId, result) ==
    IF result.kind = "reject" THEN Thrown(result.message)
    ELSE ApiPlaylistInfoBody(playlistId, result.data)

\* Variant of PlaylistInfoApiSettled: a rejected API call leaves through
\* `throw apiError`.
PlaylistInfoApiSettledThrowsApiError(rq, result) ==
    LET tried == PlaylistInfoApiTry(rq.query[1], result)
    IN  IF ~tried.threw /\ tried.value # None
        THEN Finish(Json(rq, 200, tried.value[1]))
        ELSE PlaylistInfoCatch(rq, IF tried.threw THEN tried.message
                                   ELSE rq.ytdlpError[1])

\* From the settling of the API call to the end of the handler:
\* a body, or `throw ytdlpError` into the outer catch.
PlaylistInfoApiSettled(rq, result) ==
    LET tried == PlaylistInfoApiTry(rq.query[1], result)
    IN  IF ~tried.threw /\ tried.value # None
        THEN Finish(Json(rq, 200, tried.value[1]))
        ELSE PlaylistInfoCatch(rq, rq.ytdlpError[1])

PlaylistInfo(r) ==
    \E query \in QueryValues, auth \in AuthHeaders :
        /\ Arrives(r, "playlist-info", query, auth)
        /\ req' = [req EXCEPT ![r] =
                     PlaylistInfoStart(Accept(@, "playlist-info", query, auth))]
        /\ UNCHANGED <<server, ytDlpPath>>

PlaylistInfoYtdlp(r) ==
    /\ req[r].op = "playlist-info" /\ req[r].pc = "awaitYtdlp"
    /\ \E metadata \in YtdlpResults(PlaylistDocs) :
           req' = [req EXCEPT ![r] =
                     PlaylistInfoSettled([@ EXCEPT !.metadata = Some(metadata)], metadata)]
    /\ UNCHANGED <<server, ytDlpPath>>

PlaylistInfoApi(r) ==
    /\ req[r].op = "playlist-info" /\ req[r].pc = "awaitApi"
    /\ \E result \in ApiResults :
           req' = [req EXCEPT ![r] =
                     PlaylistInfoApiSettled([@ EXCEPT !.apiResult = Some(result)], result)]
    /\ UNCHANGED <<server, ytDlpPath>>

\* getVideoInfo settles with an array in playlist-info.
PlaylistInfoArray(r) ==
    /\ req[r].op = "playlist-info" /\ req[r].pc = "awaitYtdlp"
    /\ \E metadata \in ArrayResults :
           req' = [req EXCEPT ![r] =
                     PlaylistInfoSettled([@ EXCEPT !.metadata = Some(metadata)], metadata)]
    /\ UNCHANGED <<server, ytDlpPath>>

-----------------------------------------------------------------------------
(* GET /api/playlist-videos *)

PlaylistVideosStart(rq) ==
    IF Missing(rq.query)
    THEN Finish(Json(rq, 400, ErrorOnly("playlistId parameter is required")))
    ELSE CallYtdlp(rq)

PlaylistVideosTry(playlistId, metadata) ==
    IF metadata.kind = "reject" THEN Thrown(metadata.message)
    ELSE LET rawData == ParseMetadata(metadata)
         IN  IF rawData.threw THEN rawData
             ELSE PlaylistVideosBody(playlistId, rawData.value)

PlaylistVideosSettled(rq, metadata) ==
    LET tried == PlaylistVideosTry(rq.query[1], metadata)
    IN  IF ~tried.threw THEN Finish(Json(rq, 200, tried.value))
        ELSE Finish(Json(rq, 500, ErrorMessage("Failed to fetch playlist videos",
                                               tried.message)))

PlaylistVideos(r) ==
    \E query \in QueryValues :
        /\ Arrives(r, "playlist-videos", query, None)
        /\ req' = [req EXCEPT ![r] =
                     PlaylistVideosStart(Accept(@, "playlist-videos", query, None))]
        /\ UNCHANGED <<server, ytDlpPath>>

PlaylistVideosYtdlp(r) ==
    /\ req[r].op = "playlist-videos" /\ req[r].pc = "awaitYtdlp"
    /\ \E metadata \in PlaylistVideosResults :
           req' = [req EXCEPT ![r] =
                     PlaylistVideosSettled([@ EXCEPT !.metadata = Some(metadata)], metadata)]
    /\ UNCHANGED <<server, ytDlpPath>>

\* getVideoInfo settles with an array in playlist-videos.
PlaylistVideosArray(r) ==
    /\ req[r].op = "playlist-videos" /\ req[r].pc = "awaitYtdlp"
    /\ \E metadata \in ArrayResults :
           req' = [req EXCEPT ![r] =
                     PlaylistVideosSettled([@ EXCEPT !.metadata = Some(metadata)], metadata)]
    /\ UNCHANGED <<server, ytDlpPath>>

-----------------------------------------------------------------------------
(* GET /api/playlist-videos of the draft that asks the extractor for        *)
(* --dump-json and reads its output line by line                            *)

\* One element of lines.slice(1).map(line => ...), for the value of a line.
DraftVideoSummary(video) ==
    [id |-> Get(video, "id"),
     title |-> OrStr(Get(video, "title"), Some("Unknown")),
     author |-> OrStr(OrStr(Get(video, "uploader"), Get(video, "channel")),
                      Some("Unknown")),
     duration |-> OrNum(Get(video, "duration"), Some(0)),
     thumbnailUrl |-> OrStr(Get(video, "thumbnail"), Some(""))]

\* try { const video = JSON.parse(line); return {...} } catch (e) { return null }
\* where reading video.id of null is the TypeError the catch swallows.
DraftParses(line) == line.valid /\ ~IsNull(line.doc)

\* lines.slice(1).map(...).filter(v => v !== null)
DraftMapLines(lines) ==
    LET kept == SelectSeq(SubSeq(lines, 2, Len(lines)), DraftParses)
    IN  [i \in 1..Len(kept) |-> DraftVideoSummary(kept[i].doc)]

\* metadata.split is not a function unless metadata is a string.
DraftPlaylistVideosTry(playlistId, metadata) ==
    IF metadata.kind = "reject" THEN Thrown(metadata.message)
    ELSE IF metadata.kind # "string" THEN Thrown("TypeError")
    ELSE LET lines == SelectSeq(metadata.lines, IsNotBlank)
             videos == DraftMapLines(lines)
         IN  Returned([playlistId |-> Some(playlistId),
                       title |-> Some(""),
                       itemCount |-> Some(Len(videos)),
                       videos |-> Some(videos)])

DraftPlaylistVideosSettled(rq, metadata) ==
    LET tried == DraftPlaylistVideosTry(rq.query[1], metadata)
    IN  IF ~tried.threw THEN Finish(Json(rq, 200, tried.value))
        ELSE Finish(Json(rq, 500, ErrorMessage("Failed to fetch playlist videos",
                                               tried.message)))

DraftPlaylistVideosYtdlp(r) ==
    /\ req[r].op = "playlist-videos" /\ req[r].pc = "awaitYtdlp"
    /\ \E metadata \in DraftResults :
           req' = [req EXCEPT ![r] =
                     DraftPlaylistVideosSettled([@ EXCEPT !.metadata = Some(metadata)],
                                                metadata)]
    /\ UNCHANGED <<server, ytDlpPath>>

-----------------------------------------------------------------------------
(* GET /api/download-info *)

DownloadInfoStart(rq) ==
    IF Missing(rq.query)
    THEN Finish(Json(rq, 400, ErrorOnly("videoId parameter is required")))
    ELSE CallYtdlp(rq)

DownloadInfoTry(videoId, metadata) ==
    IF metadata.kind = "reject" THEN Thrown(metadata.message)
    ELSE LET info == ParseMetadata(metadata)
         IN  IF info.threw THEN info
             ELSE DownloadInfoBody(videoId, info.value)

DownloadInfoSettled(rq, metadata) ==
    LET tried == DownloadInfoTry(rq.query[1], metadata)
    IN  IF ~tried.threw THEN Finish(Json(rq, 200, tried.value))
        ELSE Finish(Json(rq, 500, ErrorMessage("Failed to fetch download info",
                                               tried.message)))

DownloadInfo(r) ==
    \E query \in QueryValues :
        /\ Arrives(r, "download-info", query, None)
        /\ req' = [req EXCEPT ![r] =
                     DownloadInfoStart(Accept(@, "download-info", query, None))]
        /\ UNCHANGED <<server, ytDlpPath>>

DownloadInfoYtdlp(r) ==
    /\ req[r].op = "download-info" /\ req[r].pc = "awaitYtdlp"
    /\ \E metadata \in YtdlpResults(VideoDocs) :
           req' = [req EXCEPT ![r] =
                     DownloadInfoSettled([@ EXCEPT !.metadata = Some(metadata)], metadata)]
    /\ UNCHANGED <<server, ytDlpPath>>

-----------------------------------------------------------------------------
(* GET /api/download *)

DownloadStart(rq) ==
    IF Missing(rq.query)
    THEN Finish(Json(rq, 400, ErrorOnly("videoId parameter is required")))
    ELSE CallYtdlp(rq)

\* The try block up to the sanitized title.
DownloadTry(metadata) ==
    IF metadata.kind = "reject" THEN Thrown(metadata.message)
    ELSE LET info == ParseMetadata(metadata)
         IN  IF info.threw THEN info ELSE DownloadTitle(info.value)

\* The catch block: if (!res.headersSent) res.status(500).json({error, message})
DownloadCatch(rq, message) ==
    IF ~rq.headersSent
    THEN Json(rq, 500, ErrorMessage("Failed to download", message))
    ELSE rq

\* res.setHeader x 2; ytDlp.execStream([...]); stream.pipe(res); stream.on('error', ...)
StartStream(rq, title) ==
    [rq EXCEPT !.disposition = Some(ContentDisposition(title)),
               !.contentType = Some("audio/mp4"),
               !.ytdlpCalls = @ + 1,
               !.stream = "open",
               !.pc = "streaming"]

\* From the settling of getVideoInfo to the return of the handler.
DownloadSettled(rq, metadata) ==
    LET tried == DownloadTry(metadata)
    IN  IF tried.threw THEN Finish(DownloadCatch(rq, tried.message))
        ELSE StartStream(rq, tried.value)

\* The first write of the body sends the head with res.statusCode.
ImplicitHead(rq) ==
    IF rq.headersSent THEN rq
    ELSE [rq EXCEPT !.headersSent = TRUE, !.heads = @ + 1]

\* pipe's 'data' listener: res.write(chunk)
OnStreamData(rq) == [ImplicitHead(rq) EXCEPT !.chunks = @ + 1]

\* pipe's 'end' listener: res.end()
OnStreamEnd(rq) == Finish([ImplicitHead(rq) EXCEPT !.ended = TRUE])

\* Variant of OnStreamError: the handler without its headersSent test.
OnStreamErrorUnguarded(rq) == Finish(Json(rq, 500, ErrorOnly("Download failed")))

\* Variant of OnStreamError: the handler starts the extractor's stream again.
OnStreamErrorRetry(rq) == [rq EXCEPT !.ytdlpCalls = @ + 1, !.stream = "open"]

\* stream.on('error', ...): if (!res.headersSent) res.status(500).json({error})
OnStreamError(rq) ==
    IF ~rq.headersSent
    THEN Finish(Json(rq, 500, ErrorOnly("Download failed")))
    ELSE rq

Download(r) ==
    \E query \in QueryValues :
        /\ Arrives(r, "download", query, None)
        /\ req' = [req EXCEPT ![r] = DownloadStart(Accept(@, "download", query, None))]
        /\ UNCHANGED <<server, ytDlpPath>>

DownloadYtdlp(r) ==
    /\ req[r].op = "download" /\ req[r].pc = "awaitYtdlp"
    /\ \E metadata \in YtdlpResults(VideoDocs) :
           req' = [req EXCEPT ![r] =
                     DownloadSettled([@ EXCEPT !.metadata = Some(metadata)], metadata)]
    /\ UNCHANGED <<server, ytDlpPath>>

\* getVideoInfo settles with the metadata of a titled video.
DownloadYtdlpTitled(r) ==
    /\ req[r].op = "download" /\ req[r].pc = "awaitYtdlp"
    /\ \E metadata \in TitledResults :
           req' = [req EXCEPT ![r] =
                     DownloadSettled([@ EXCEPT !.metadata = Some(metadata)], metadata)]
    /\ UNCHANGED <<server, ytDlpPath>>

\* The extractor's stdout delivers a chunk.
StreamData(r) ==
    /\ req[r].stream = "open" /\ req[r].chunks < MaxChunks
    /\ req' = [req EXCEPT ![r] = OnStreamData(@)]
    /\ UNCHANGED <<server, ytDlpPath>>

\* The extractor exits with code 0: the stream ends.
StreamEnd(r) ==
    /\ req[r].stream = "open"
    /\ req' = [req EXCEPT ![r] = OnStreamEnd([@ EXCEPT !.stream = "ended"])]
    /\ UNCHANGED <<server, ytDlpPath>>

\* Variant of StreamError: the 'error' listener is shared, so the event of
\* one stream runs the handler of every response that is still streaming.
StreamErrorShared(r) ==
    /\ \/ req[r].stream = "open"
       \/ req[r].stream = "errored" /\ req[r].errorEvents < MaxErrorEvents
    /\ req' = [q \in DOMAIN req |->
                 IF q = r \/ req[q].stream = "open"
                 THEN OnStreamError([req[q] EXCEPT !.stream = "errored",
                                                   !.errorEvents = @ + 1])
                 ELSE req[q]]
    /\ UNCHANGED <<server, ytDlpPath>>

\* The extractor exits with another code: the stream emits 'error' (and,
\* destroyed with that error, may emit it a second time).
StreamError(r) ==
    /\ \/ req[r].stream = "open"
       \/ req[r].stream = "errored" /\ req[r].errorEvents < MaxErrorEvents
    /\ req' = [req EXCEPT ![r] =
                 OnStreamError([@ EXCEPT !.stream = "errored", !.errorEvents = @ + 1])]
    /\ UNCHANGED <<server, ytDlpPath>>

-----------------------------------------------------------------------------
(* The server *)

Next ==
    \/ Startup
    \/ \E r \in ReqIds :
        \/ Health(r)
        \/ ErrorMiddleware(r)
        \/ UserPlaylists(r)
        \/ UserPlaylistsApi(r)
        \/ PlaylistInfo(r)
        \/ PlaylistInfoYtdlp(r)
        \/ PlaylistInfoApi(r)
        \/ PlaylistVideos(r)
        \/ PlaylistVideosYtdlp(r)
        \/ DownloadInfo(r)
        \/ DownloadInfoYtdlp(r)
        \/ Download(r)
        \/ DownloadYtdlp(r)
        \/ StreamData(r)
        \/ StreamEnd(r)
        \/ StreamError(r)

Spec == Init /\ [][Next]_vars

\* The draft constructs its extractor wrapper without a path and serves
\* playlist-videos from the line-delimited output.
DraftInit ==
    /\ server = "listening"
    /\ ytDlpPath = None
    /\ req = [r \in ReqIds |-> FreeRequest]

DraftNext ==
    \E r \in ReqIds :
        \/ PlaylistVideos(r)
        \/ DraftPlaylistVideosYtdlp(r)

DraftSpec == DraftInit /\ [][DraftNext]_vars

\* The download of a video of every title, on a server whose startup probe
\* found the extractor on the path, followed to the end of the stream.
TitleInit ==
    /\ server = "listening"
    /\ ytDlpPath = Some("yt-dlp")
    /\ req = [r \in ReqIds |-> FreeRequest]

TitleNext ==
    \E r \in ReqIds :
        \/ Download(r)
        \/ DownloadYtdlpTitled(r)
        \/ StreamEnd(r)

TitleSpec == TitleInit /\ [][TitleNext]_vars

\* The two playlist routes served every array answer, on a server whose
\* startup probe found the extractor on the path.
ArrayInit ==
    /\ server = "listening"
    /\ ytDlpPath = Some("yt-dlp")
    /\ req = [r \in ReqIds |-> FreeRequest]

ArrayNext ==
    \E r \in ReqIds :
        \/ PlaylistInfo(r)
        \/ PlaylistInfoArray(r)
        \/ PlaylistInfoApi(r)
        \/ PlaylistVideos(r)
        \/ PlaylistVideosArray(r)

ArraySpec == ArrayInit /\ [][ArrayNext]_vars

\* NumConc requests in flight together, from the start of the module: the
\* streaming route, an extractor route and the API route, in any interleaving
\* of their stretches between awaits and stream events.
ConcInit ==
    /\ server = "starting"
    /\ ytDlpPath = Some("yt-dlp")
    /\ req = [r \in ConcIds |-> FreeRequest]

ConcNext ==
    \/ Startup
    \/ \E r \in ConcIds :
        \/ Health(r)
        \/ UserPlaylists(r)
        \/ UserPlaylistsApi(r)
        \/ DownloadInfo(r)
        \/ DownloadInfoYtdlp(r)
        \/ Download(r)
        \/ DownloadYtdlp(r)
        \/ StreamData(r)
        \/ StreamEnd(r)
        \/ StreamError(r)

ConcSpec == ConcInit /\ [][ConcNext]_vars

-----------------------------------------------------------------------------
(* Properties *)

\* The response of rq carries the JSON field f.
HasField(rq, f) == rq.json /\ f \in DOMAIN rq.body /\ rq.body[f] # None

\* The operations that require a query parameter.
ParamOps == {"playlist-info", "playlist-videos", "download-info", "download"}

\* C1: a request of playlist-info, playlist-videos, download-info or download
\* whose required query parameter is missing or empty is answered with status
\* 400 and a body with an `error` field, and neither the extractor nor the
\* authenticated API is invoked for it.
C1_MissingParameterIs400 ==
    \A r \in ReqIds :
        (req[r].op \in ParamOps /\ req[r].query \in {None, Some("")})
        => /\ req[r].headersSent /\ req[r].ended
           /\ req[r].status = 400
           /\ HasField(req[r], "error")
           /\ req[r].ytdlpCalls = 0
           /\ req[r].apiCalls = 0
           /\ req[r].pc = "done"

C1_Witness ==
    \E r \in ReqIds :
        /\ req[r].op = "download" /\ req[r].query = Some("")
        /\ req[r].status = 400 /\ req[r].headersSent

\* The Authorization header is absent or does not start with 'Bearer '.
NoBearerHeader(rq) ==
    \/ rq.auth = None
    \/ Len(rq.auth[1]) < 7
    \/ SubSeq(rq.auth[1], 1, 7) # <<"B", "e", "a", "r", "e", "r", " ">>

\* C2: user-playlists answers 401 when no 'Bearer ' header is present, without
\* calling the authenticated API; it answers 401 when the API rejects the token
\* with code 401; every other failure of the API call is a 500, and a 401 has
\* no other cause than these two.
C2_UserPlaylists401 ==
    \A r \in ReqIds :
        req[r].op = "user-playlists"
        => /\ NoBearerHeader(req[r])
              => req[r].status = 401 /\ req[r].headersSent /\ req[r].apiCalls = 0
           /\ \A result \in ApiResults :
                (req[r].apiResult = Some(result) /\ result.kind = "reject")
                => /\ req[r].headersSent
                   /\ req[r].status = IF result.code = Some(401) THEN 401 ELSE 500
           /\ (req[r].headersSent /\ req[r].status = 401)
              => \/ NoBearerHeader(req[r])
                 \/ \E result \in ApiResults :
                       /\ req[r].apiResult = Some(result)
                       /\ result.kind = "reject" /\ result.code = Some(401)

C2_Witness ==
    \E r \in ReqIds :
        /\ req[r].op = "user-playlists"
        /\ req[r].apiCalls = 1
        /\ req[r].apiResult # None
        /\ req[r].apiResult[1].kind = "reject"
        /\ req[r].apiResult[1].code = Some(401)
        /\ req[r].status = 401

\* The extractor call of a playlist-info request has failed and the request
\* carries a bearer token, and the API call has settled without failing.
FallbackResolved(rq) ==
    /\ rq.op = "playlist-info"
    /\ rq.ytdlpError # None
    /\ ~NoBearerHeader(rq)
    /\ rq.apiResult # None
    /\ rq.apiResult[1].kind = "resolve"

\* The API reply holds a first item with its snippet and contentDetails.
FirstItemUsable(data) ==
    /\ "items" \in DOMAIN data
    /\ Len(data.items.array) > 0
    /\ "snippet" \in DOMAIN data.items.array[1]
    /\ "contentDetails" \in DOMAIN data.items.array[1]

SourcedFromApi(rq) ==
    /\ rq.headersSent /\ rq.status = 200
    /\ HasField(rq, "source") /\ rq.body.source = Some("youtube-api")

\* C3 (as claimed): in playlist-info, when the extractor call fails and the
\* request carries a valid bearer token, every outcome of the API call that
\* does not itself fail, an empty item list included, gives a success result
\* with source = "youtube-api".
C3_FallbackAlwaysSucceeds ==
    \A r \in ReqIds : FallbackResolved(req[r]) => SourcedFromApi(req[r])

\* C3 (amended): under the same conditions the result is a success with
\* source = "youtube-api" when the API reply holds at least one item (with its
\* snippet and contentDetails); when the item list is absent or empty (or the
\* first item lacks those parts) the response is the 500 that carries the
\* extractor error's message.
C3_FallbackSucceedsWithItem ==
    \A r \in ReqIds :
        FallbackResolved(req[r])
        => IF FirstItemUsable(req[r].apiResult[1].data)
           THEN /\ SourcedFromApi(req[r])
                /\ req[r].body.id = req[r].query
           ELSE /\ req[r].headersSent /\ req[r].status = 500
                /\ HasField(req[r], "message")
                /\ req[r].body.message = req[r].ytdlpError

C3_Witness ==
    \E r \in ReqIds :
        /\ FallbackResolved(req[r])
        /\ Len(req[r].apiResult[1].data.items.array) = 1
        /\ SourcedFromApi(req[r])

\* C4: in playlist-info, when the extractor call fails and either no bearer
\* token is present or the API fallback fails too, the response is a 500 whose
\* message is the extractor error's message: not the API error's message and
\* not a composed one.
C4_ExtractorErrorSurfaces ==
    \A r \in ReqIds :
        LET rq == req[r]
        IN  (/\ rq.op = "playlist-info"
             /\ rq.metadata # None
             /\ PlaylistInfoTry(rq.query[1], rq.metadata[1]).threw
             /\ \/ NoBearerHeader(rq)
                \/ rq.apiResult # None /\ rq.apiResult[1].kind = "reject")
            => /\ rq.headersSent /\ rq.status = 500 /\ rq.pc = "done"
               /\ HasField(rq, "message")
               /\ rq.body.message =
                    Some(PlaylistInfoTry(rq.query[1], rq.metadata[1]).message)
               /\ \A result \in ApiResults :
                    result.kind = "reject" => rq.body.message # Some(result.message)

C4_Witness ==
    \E r \in ReqIds :
        /\ req[r].op = "playlist-info"
        /\ req[r].metadata # None /\ req[r].metadata[1].kind = "reject"
        /\ req[r].apiResult # None /\ req[r].apiResult[1].kind = "reject"
        /\ req[r].status = 500
        /\ req[r].body.message = Some(req[r].metadata[1].message)

\* C5: in playlist-info the extractor is tried first.  The API is called at
\* most once, only after the extractor call of the same request has settled
\* with a failure and only if a bearer token is present; when the extractor
\* succeeds the response has source = "yt-dlp" and the API is never called,
\* token or not.
C5_ExtractorFirst ==
    \A r \in ReqIds :
        LET rq == req[r]
        IN  rq.op = "playlist-info"
            => /\ rq.apiCalls <= 1
               /\ rq.apiCalls > 0
                  => /\ rq.ytdlpCalls = 1
                     /\ rq.metadata # None
                     /\ PlaylistInfoTry(rq.query[1], rq.metadata[1]).threw
                     /\ ~NoBearerHeader(rq)
               /\ (rq.metadata # None /\ ~PlaylistInfoTry(rq.query[1], rq.metadata[1]).threw)
                  => /\ rq.headersSent /\ rq.status = 200
                     /\ HasField(rq, "source") /\ rq.body.source = Some("yt-dlp")
                     /\ rq.apiCalls = 0

C5_Witness ==
    \E r \in ReqIds :
        /\ req[r].op = "playlist-info"
        /\ ~NoBearerHeader(req[r])
        /\ req[r].metadata # None /\ req[r].metadata[1].kind = "value"
        /\ req[r].status = 200 /\ req[r].headersSent
        /\ req[r].body.source = Some("yt-dlp")
        /\ req[r].apiCalls = 0

\* C6: in the download operation at most one response head is committed per
\* request, and once the headers have been sent neither the status code nor a
\* JSON body is written any more: a 200 streaming response is never followed
\* by a 500.
C6_NoHeadAfterHeadersSent ==
    /\ [](\A r \in ReqIds : req[r].op = "download" => req[r].heads <= 1)
    /\ [][\A r \in ReqIds :
            (req[r].op = "download" /\ req[r].headersSent)
            => /\ req'[r].status = req[r].status
               /\ req'[r].heads = req[r].heads
               /\ req'[r].json = req[r].json
               /\ req'[r].body = req[r].body]_vars

C6_Witness ==
    \E r \in ReqIds :
        /\ req[r].op = "download"
        /\ req[r].stream = "errored" /\ req[r].errorEvents = 2
        /\ req[r].chunks > 0
        /\ req[r].headersSent /\ req[r].heads = 1
        /\ req[r].status = 200 /\ ~req[r].json

\* C7: a download whose extractor stream has emitted 'error' has its response
\* closed, whether the headers had been sent (aborted) or not (the 500): the
\* response is not left open.
C7_ErroredStreamIsClosed ==
    \A r \in ReqIds :
        (req[r].op = "download" /\ req[r].stream = "errored") => req[r].ended

\* The metadata call of a download rejected, returned a string that is not
\* JSON, or returned a document without a title.
PreStreamFailure(metadata) ==
    \/ metadata.kind = "reject"
    \/ metadata.kind = "string" /\ ~metadata.valid
    \/ /\ metadata.kind \in {"string", "value"}
       /\ \/ "null" \in DOMAIN metadata.doc
          \/ "title" \notin DOMAIN metadata.doc

\* C8: when the metadata call of a download fails before streaming starts
\* (it rejects, its output is not valid JSON, or the metadata has no title),
\* the response is a 500 with a JSON error body, the audio stream is never
\* started and neither Content-Disposition nor Content-Type: audio/mp4 is set.
C8_PreStreamFailureIs500 ==
    \A r \in ReqIds :
        (/\ req[r].op = "download"
         /\ req[r].metadata # None
         /\ PreStreamFailure(req[r].metadata[1]))
        => /\ req[r].headersSent /\ req[r].ended /\ req[r].status = 500
           /\ HasField(req[r], "error") /\ HasField(req[r], "message")
           /\ req[r].stream = "none" /\ req[r].chunks = 0
           /\ req[r].ytdlpCalls = 1
           /\ req[r].disposition = None
           /\ req[r].contentType = Some("application/json")

C8_Witness ==
    \E r \in ReqIds :
        /\ req[r].op = "download"
        /\ req[r].metadata = Some([kind |-> "value", doc |-> VideoNoTitle])
        /\ req[r].status = 500 /\ req[r].headersSent
        /\ req[r].stream = "none"

\* C9: every error response (status 400, 401 or 500) has the envelope
\* {error, message}: both fields are present.
C9_ErrorEnvelope ==
    \A r \in ReqIds :
        (req[r].headersSent /\ req[r].status >= 400)
        => /\ req[r].status \in {400, 401, 500}
           /\ HasField(req[r], "error")
           /\ HasField(req[r], "message")

HasFields(rq, fields) == \A f \in fields : HasField(rq, f)

\* C10: the success response of download-info, playlist-info and
\* playlist-videos holds every field of its schema whatever the extractor's
\* document holds: no field is undefined or null; download-info has a
\* non-empty title and lengthSeconds >= 0; every video entry has an id.
C10_SchemaComplete ==
    \A r \in ReqIds :
        LET rq == req[r]
        IN  (rq.headersSent /\ rq.status = 200 /\ rq.json)
            => /\ rq.op = "download-info"
                  => /\ HasFields(rq, {"videoId", "title", "author", "lengthSeconds",
                                       "downloadUrl", "quality", "format"})
                     /\ rq.body.title # Some(<<>>)
                     /\ rq.body.lengthSeconds[1] >= 0
               /\ rq.op = "playlist-info"
                  => HasFields(rq, {"id", "title", "description", "thumbnailUrl",
                                    "itemCount", "source"})
               /\ rq.op = "playlist-videos"
                  => /\ HasFields(rq, {"playlistId", "title", "itemCount", "videos"})
                     /\ \A i \in 1..Len(rq.body.videos[1]) :
                          \A f \in {"id", "title", "author", "duration", "thumbnailUrl"} :
                              rq.body.videos[1][i][f] # None

-----------------------------------------------------------------------------

\* The valid lines of a line-delimited output that denote a video.
IsVideoLine(line) == ~line.blank /\ line.valid /\ ~IsNull(line.doc) /\ IsVideoItem(line.doc)

\* C11: when the extractor's output is line-delimited JSON with at least one
\* video line, playlist-videos answers 200 with a non-empty videos list that
\* has one video for every line that parses as a video, whatever the other
\* lines are.
C11_NdjsonStillSucceeds ==
    \A r \in ReqIds :
        (/\ req[r].op = "playlist-videos" /\ req[r].pc = "done"
         /\ req[r].metadata # None
         /\ "lines" \in DOMAIN req[r].metadata[1]
         /\ Len(SelectSeq(req[r].metadata[1].lines, IsVideoLine)) > 0)
        => /\ req[r].status = 200
           /\ HasField(req[r], "videos")
           /\ Len(req[r].body.videos[1])
                = Len(SelectSeq(req[r].metadata[1].lines, IsVideoLine))

\* The draft that reads the output line by line answers 200 for every output
\* that is a string, with one video per parsable line after the first line.
DraftSkipsBadLines ==
    \A r \in ReqIds :
        (/\ req[r].op = "playlist-videos" /\ req[r].pc = "done"
         /\ req[r].metadata # None
         /\ "lines" \in DOMAIN req[r].metadata[1])
        => /\ req[r].status = 200
           /\ \E n \in 0..1 :
                Len(req[r].body.videos[1]) + n
                    = Len(SelectSeq(req[r].metadata[1].lines, DraftParses))

\* A state of the draft in which the first line is a video and the answer
\* has fewer videos than there are video lines.
DraftDropsFirstLine ==
    \E r \in ReqIds :
        /\ req[r].op = "playlist-videos" /\ req[r].pc = "done"
        /\ req[r].metadata # None
        /\ "lines" \in DOMAIN req[r].metadata[1]
        /\ Len(req[r].metadata[1].lines) > 0
        /\ IsVideoLine(req[r].metadata[1].lines[1])
        /\ req[r].status = 200
        /\ Len(req[r].body.videos[1])
             < Len(SelectSeq(req[r].metadata[1].lines, IsVideoLine))

-----------------------------------------------------------------------------

\* c is the lower-case form of the ASCII letter or digit t.
LowerOf(t, c) ==
    \/ t \in Range(LowerCase) \cup Range(Digits) /\ c = t
    \/ \E k \in 1..Len(UpperCase) : t = UpperCase[k] /\ c = LowerCase[k]

\* The download of r has streamed to its end.
Downloaded(rq) == rq.op = "download" /\ rq.pc = "done" /\ rq.stream = "ended"

\* C12: a successful download carries Content-Type: audio/mp4 and a
\* Content-Disposition filename that ends in .m4a and whose part before it
\* has the length of the extractor's title, with '_' wherever the title has a
\* character outside [a-zA-Z0-9] and the lower-case form of the title's
\* character everywhere else, so only lower-case alphanumerics and '_'.
C12_DownloadHeaders ==
    \A r \in ReqIds :
        Downloaded(req[r])
        => LET title == req[r].metadata[1].doc.title
               name == req[r].disposition[1]
           IN  /\ req[r].status = 200
               /\ req[r].contentType = Some("audio/mp4")
               /\ name.ext = ".m4a"
               /\ Len(name.filename) = Len(title)
               /\ \A i \in 1..Len(title) :
                     /\ name.filename[i]
                          \in Range(LowerCase) \cup Range(Digits) \cup {"_"}
                     /\ IF title[i] \in Range(UpperCase) \cup Range(LowerCase)
                                        \cup Range(Digits)
                        THEN LowerOf(title[i], name.filename[i])
                        ELSE name.filename[i] = "_"

C12_Witness ==
    \E r \in ReqIds :
        /\ Downloaded(req[r])
        /\ req[r].metadata[1].doc.title = <<"A", "U+00E9">>
        /\ req[r].disposition = Some([filename |-> <<"a", "_">>, ext |-> ".m4a"])
        /\ req[r].contentType = Some("audio/mp4")

-----------------------------------------------------------------------------

\* The extractor invocations the handler of rq is accountable for: the one
\* metadata call once it is made, and the one stream once it is started.
MetadataCalls(rq) == IF rq.pc = "awaitYtdlp" \/ rq.metadata # None THEN 1 ELSE 0
StreamCalls(rq) == IF rq.stream # "none" THEN 1 ELSE 0

-----------------------------------------------------------------------------

\* The extractor answered rq's playlist request with a non-empty array.
ArrayAnswered(rq) ==
    /\ rq.op \in {"playlist-info", "playlist-videos"}
    /\ rq.metadata # None
    /\ rq.metadata[1].kind = "value"
    /\ IsArray(rq.metadata[1].doc)
    /\ Len(rq.metadata[1].doc.array) > 0

\* The indices of the elements tagged playlist, and of those tagged url or video.
PlaylistTagged(items) == {i \in 1..Len(items) : Get(items[i], "_type") = Some("playlist")}
VideoTagged(items) ==
    {i \in 1..Len(items) : Get(items[i], "_type") \in {Some("url"), Some("video")}}

\* The index of the playlist-level element: the first one tagged playlist,
\* the last element when none is.
PlaylistLevel(items) ==
    IF PlaylistTagged(items) # {}
    THEN CHOOSE i \in PlaylistTagged(items) : \A j \in PlaylistTagged(items) : i <= j
    ELSE Len(items)

\* The index of the j-th element tagged url or video.
NthVideo(items, j) ==
    CHOOSE i \in VideoTagged(items) : Cardinality({h \in VideoTagged(items) : h <= i}) = j

\* The answer to rq is made of the two parts of the array: title and counts
\* of the playlist-level element, one video per element tagged url or video,
\* in the order of the array.
ArrayRecovered(rq) ==
    LET items == rq.metadata[1].doc.array
        level == items[PlaylistLevel(items)]
        count == Cardinality(VideoTagged(items))
    IN  /\ rq.pc = "done" /\ rq.status = 200
        /\ rq.op = "playlist-videos"
            => /\ rq.body.title = OrStr(Get(level, "title"), Some(""))
               /\ rq.body.videos
                    = Some([j \in 1..count |-> VideoSummary(items[NthVideo(items, j)])])
               /\ rq.body.itemCount = Some(Len(rq.body.videos[1]))
        /\ rq.op = "playlist-info"
            => /\ rq.body.title = OrStr(Get(level, "title"), Some("Unknown Playlist"))
               /\ rq.body.itemCount
                    = OrNum(OrNum(Get(level, "playlist_count"), Some(count)), Some(0))
               /\ rq.body.source = Some("yt-dlp")

\* The playlist-level element of the array is among the videos rq answers with.
LevelAmongVideos(rq) ==
    LET items == rq.metadata[1].doc.array
    IN  \E j \in 1..Len(rq.body.videos[1]) :
            rq.body.videos[1][j] = VideoSummary(items[PlaylistLevel(items)])

-----------------------------------------------------------------------------

\* What a request brings and what its own extractor calls, API calls and
\* stream have given it so far.
OwnInputs(rq) ==
    <<rq.op, rq.query, rq.auth, rq.pc, rq.metadata, rq.apiResult,
      rq.stream, rq.chunks, rq.errorEvents>>

\* What the client of a request has been sent so far.
Response(rq) ==
    <<rq.status, rq.headersSent, rq.heads, rq.json, rq.body, rq.ended,
      rq.disposition, rq.contentType>>

=============================================================================
